---- MODULE Spec2Model ----
(***************************************************************************)
(* Model of rust-stens: the bounded collections of src/src/collection.rs   *)
(* (StrictVec, StrictSet, StrictMap, StrictStr, AsciiString) and the       *)
(* stream verifier of src/src/verify.rs.                                   *)
(*                                                                         *)
(* Spec       one bounded container from construction through any          *)
(*            sequence of push / insert / remove calls.                    *)
(* SpecCodec  strict-encoding a valid container, then strict-decoding it.  *)
(* SpecVerify one call of Verify::verify on a schema type and a stream.    *)
(*                                                                         *)
(* A container may hold 65536 elements, so Spec keeps the content of a     *)
(* Vec or String run-length encoded (a sequence of runs [e, n]: n copies   *)
(* of e) and the content of a BTreeSet or BTreeMap as runs of consecutive  *)
(* keys [lo, hi, val]. Both encodings are canonical: two contents are      *)
(* equal iff their encodings are.                                          *)
(***************************************************************************)
EXTENDS Integers, Sequences, FiniteSets, TLC

VARIABLES
    kind,       \* which container type: "Vec", "Set", "Map", "Str", "Ascii"
    MIN_LEN,    \* const generic MIN_LEN: u16
    MAX_LEN,    \* const generic MAX_LEN: u16 (AsciiString; u16::MAX otherwise)
    live,       \* TRUE once a constructor has returned Ok(Self(..))
    inner,      \* field .0: Vec<T> / BTreeSet<T> / BTreeMap<K,V> / String
    call,       \* the last call made: [op |-> .., ..arguments..]
    ret,        \* what that call returned (or that it panicked)
    prev,       \* field .0 as it was when that call was entered
    earlier,    \* [call, ret, prev] of the call made before the last one
    steps,      \* number of calls made so far
    ts,         \* the TypeSystem handed to verify: TypeName -> StructType
    ty,         \* the type verify is called on
    buf,        \* the bytes of the stream (impl Read + Seek)
    lenient,    \* whether the stream lets a seek go past its end
    start,      \* the stream position when verify is called
    out,        \* what verify did: its result and the position it left
    stack,      \* the verify calls and loops in progress, the innermost first
    cursor      \* the stream position while verify runs

cvars == <<kind, MIN_LEN, MAX_LEN, live, inner, call, ret, prev, earlier, steps>>
vvars == <<ts, ty, buf, lenient, start, out, stack, cursor>>
vars == <<cvars, vvars>>

(***************************************************************************)
(* Integer widths.                                                         *)
(***************************************************************************)
STRICT_COLLECTION_MAX_LEN == 65535

U16Mod == STRICT_COLLECTION_MAX_LEN + 1

\* `x as u16` on a usize
AsU16(x) == x % U16Mod

(***************************************************************************)
(* Bounds of the model.                                                    *)
(***************************************************************************)
MaxLen == 3         \* longest small raw input handed to a constructor
MaxSteps == 4       \* calls made on one container
MaxMin == 2         \* largest small MIN_LEN tried

\* element values T (u16) offered to push / insert / remove
Elems == {0, 1}
\* map values V
Vals == {7, 8}
\* the value a BTreeSet<T> = BTreeMap<T, ()> stores with each element
Unit == "()"
\* Option<V>
None == [some |-> FALSE]
Some(v) == [some |-> TRUE, v |-> v]

(***************************************************************************)
(* Results.                                                                *)
(***************************************************************************)
Ok(v) == [tag |-> "Ok", val |-> v]
OversizeError(len) == [tag |-> "Oversize", len |-> len]
UndersizeError(len, min) == [tag |-> "Undersize", len |-> len, min_len |-> min]
IndexOutOfBounds(index, len) == [tag |-> "IndexOutOfBounds", index |-> index, len |-> len]
InvalidChar(b) == [tag |-> "InvalidChar", byte |-> b]
Panic == [tag |-> "Panic"]

(***************************************************************************)
(* Vec<T> and String content, run-length encoded.                          *)
(***************************************************************************)
RECURSIVE RleLen(_)
\* Vec::len
RleLen(r) == IF r = <<>> THEN 0 ELSE r[1].n + RleLen(Tail(r))

RECURSIVE RleNorm(_)
\* the canonical encoding: no empty run, no two adjacent runs of one element
RleNorm(r) ==
    IF r = <<>> THEN <<>>
    ELSE IF r[1].n = 0 THEN RleNorm(Tail(r))
    ELSE IF Len(r) >= 2 /\ r[2].n = 0 THEN RleNorm(<<r[1]>> \o Tail(Tail(r)))
    ELSE IF Len(r) >= 2 /\ r[2].e = r[1].e
         THEN RleNorm(<<[e |-> r[1].e, n |-> r[1].n + r[2].n]>> \o Tail(Tail(r)))
    ELSE <<r[1]>> \o RleNorm(Tail(r))

\* the encoding of a sequence given element by element
RleOf(s) == RleNorm([i \in 1..Len(s) |-> [e |-> s[i], n |-> 1]])

RECURSIVE RleBefore(_, _)
\* number of elements in the runs before run j
RleBefore(r, j) == IF j <= 1 THEN 0 ELSE r[j - 1].n + RleBefore(r, j - 1)

\* the run that holds the element at 0-based index i < RleLen(r)
RleRunOf(r, i) ==
    CHOOSE j \in 1..Len(r) : RleBefore(r, j) <= i /\ i < RleBefore(r, j) + r[j].n

\* v[i], 0-based
RleGet(r, i) == r[RleRunOf(r, i)].e

\* Vec::push
RlePush(r, x) == RleNorm(Append(r, [e |-> x, n |-> 1]))

\* Vec::remove(i), 0-based, i < RleLen(r): the elements after i shift left
RleRemove(r, i) == RleNorm([r EXCEPT ![RleRunOf(r, i)].n = @ - 1])

(***************************************************************************)
(* BTreeMap<K,V> content as runs of consecutive keys with one value;       *)
(* BTreeSet<T> is BTreeMap<T, ()>.                                         *)
(***************************************************************************)
RECURSIVE RunsLen(_)
\* BTreeMap::len
RunsLen(m) ==
    IF m = {} THEN 0
    ELSE LET r == CHOOSE x \in m : TRUE IN (r.hi - r.lo + 1) + RunsLen(m \ {r})

\* BTreeMap::contains_key
RunsHas(m, k) == \E r \in m : r.lo <= k /\ k <= r.hi

\* BTreeMap::get, for a key that is present
RunsGet(m, k) == (CHOOSE r \in m : r.lo <= k /\ k <= r.hi).val

\* BTreeMap::remove, the map it leaves
RunsRemove(m, k) ==
    IF ~RunsHas(m, k) THEN m
    ELSE LET r == CHOOSE x \in m : x.lo <= k /\ k <= x.hi IN
         (m \ {r})
           \cup (IF r.lo <= k - 1 THEN {[lo |-> r.lo, hi |-> k - 1, val |-> r.val]} ELSE {})
           \cup (IF k + 1 <= r.hi THEN {[lo |-> k + 1, hi |-> r.hi, val |-> r.val]} ELSE {})

\* BTreeMap::insert, the map it leaves: the value of a present key is replaced
RunsInsert(m, k, v) ==
    LET m1 == RunsRemove(m, k)
        l == {r \in m1 : r.hi = k - 1 /\ r.val = v}
        h == {r \in m1 : r.lo = k + 1 /\ r.val = v}
        lo == IF l = {} THEN k ELSE (CHOOSE r \in l : TRUE).lo
        hi == IF h = {} THEN k ELSE (CHOOSE r \in h : TRUE).hi
    IN  (m1 \ (l \cup h)) \cup {[lo |-> lo, hi |-> hi, val |-> v]}

(***************************************************************************)
(* StrictVec                                                               *)
(***************************************************************************)
\* TryFromLen with the upper bound tested by >= : a raw input of exactly
\* 65535 elements is refused
TryFromLenOffByOne(value, min) ==
    LET len == RleLen(value) IN
    IF len >= STRICT_COLLECTION_MAX_LEN THEN OversizeError(len)
    ELSE IF len < min THEN UndersizeError(AsU16(len), min)
    ELSE Ok(value)

\* TryFrom<Vec<T>> for StrictVec, TryFrom<String> for StrictStr
TryFromLen(value, min) ==
    LET len == RleLen(value) IN
    IF len > STRICT_COLLECTION_MAX_LEN THEN OversizeError(len)
    ELSE IF len < min THEN UndersizeError(AsU16(len), min)
    ELSE Ok(value)

\* StrictVec::len, StrictStr::len, AsciiString::len
SeqLen(v) == AsU16(RleLen(v))

\* VecPush with the element put in front (Vec::insert(0, item))
VecPushFront(v, item) ==
    LET len == RleLen(v) IN
    IF len > STRICT_COLLECTION_MAX_LEN
    THEN [ret |-> OversizeError(len), inner |-> v]
    ELSE [ret |-> Ok(AsU16(len)), inner |-> RleNorm(<<[e |-> item, n |-> 1]>> \o v)]

\* StrictVec::push: what it returns and the content it leaves
VecPush(v, item) ==
    LET len == RleLen(v) IN
    IF len > STRICT_COLLECTION_MAX_LEN
    THEN [ret |-> OversizeError(len), inner |-> v]
    ELSE [ret |-> Ok(AsU16(len)), inner |-> RlePush(v, item)]

\* VecRemove with the index tested before the lower bound
VecRemoveIndexFirst(v, index, min) ==
    LET len == SeqLen(v) IN
    IF index >= len THEN [ret |-> IndexOutOfBounds(index, len), inner |-> v]
    ELSE IF SeqLen(v) = min THEN [ret |-> UndersizeError(len, min), inner |-> v]
    ELSE [ret |-> Ok(RleGet(v, index)), inner |-> RleRemove(v, index)]

\* StrictVec::remove; index is a u16, 0-based. Vec::remove panics, before it
\* changes anything, when index >= the vector's length.
VecRemove(v, index, min) ==
    LET len == SeqLen(v) IN
    IF SeqLen(v) = min THEN [ret |-> UndersizeError(len, min), inner |-> v]
    ELSE IF index > len THEN [ret |-> IndexOutOfBounds(index, len), inner |-> v]
    ELSE IF index >= RleLen(v) THEN [ret |-> Panic, inner |-> v]
    ELSE [ret |-> Ok(RleGet(v, index)), inner |-> RleRemove(v, index)]

(***************************************************************************)
(* StrictSet, StrictMap                                                    *)
(***************************************************************************)
\* StrictSet::len, StrictMap::len
MapLen(m) == AsU16(RunsLen(m))

\* SetInsert with the upper bound tested by >= : the insert into a set of
\* 65535 elements is refused
SetInsertTight(s, item) ==
    LET len == RunsLen(s) IN
    IF len >= STRICT_COLLECTION_MAX_LEN
    THEN [ret |-> OversizeError(len), inner |-> s]
    ELSE [ret |-> Ok(AsU16(len)), inner |-> RunsInsert(s, item, Unit)]

\* StrictSet::insert
SetInsert(s, item) ==
    LET len == RunsLen(s) IN
    IF len > STRICT_COLLECTION_MAX_LEN
    THEN [ret |-> OversizeError(len), inner |-> s]
    ELSE [ret |-> Ok(AsU16(len)), inner |-> RunsInsert(s, item, Unit)]

\* StrictSet::remove: Ok(whether the element was present)
SetRemove(s, item, min) ==
    LET len == MapLen(s) IN
    IF MapLen(s) = min THEN [ret |-> UndersizeError(len, min), inner |-> s]
    ELSE [ret |-> Ok(RunsHas(s, item)), inner |-> RunsRemove(s, item)]

\* StrictMap::insert
MapInsert(m, key, value) ==
    LET len == RunsLen(m) IN
    IF len > STRICT_COLLECTION_MAX_LEN
    THEN [ret |-> OversizeError(len), inner |-> m]
    ELSE [ret |-> Ok(AsU16(len)), inner |-> RunsInsert(m, key, value)]

\* StrictMap::remove: Ok(Some(value)) or Ok(None)
MapRemove(m, key, min) ==
    LET len == MapLen(m) IN
    IF MapLen(m) = min THEN [ret |-> UndersizeError(len, min), inner |-> m]
    ELSE [ret |-> Ok(IF RunsHas(m, key) THEN Some(RunsGet(m, key)) ELSE None),
          inner |-> RunsRemove(m, key)]

(***************************************************************************)
(* StrictStr, AsciiString                                                  *)
(***************************************************************************)
\* u8::is_ascii
IsAscii(b) == b < 128

\* value.bytes().find(|c| !c.is_ascii()): the index of the first run of a
\* non-ASCII byte, 0 when every byte is ASCII
FirstNonAscii(value) ==
    IF \A j \in 1..Len(value) : IsAscii(value[j].e) THEN 0
    ELSE CHOOSE j \in 1..Len(value) :
            /\ ~IsAscii(value[j].e)
            /\ \A i \in 1..(j - 1) : IsAscii(value[i].e)

\* TryFrom<String> for AsciiString
AsciiTryFrom(value, min, max) ==
    LET len == RleLen(value) IN
    IF len > max THEN OversizeError(len)
    ELSE IF len < min THEN UndersizeError(AsU16(len), min)
    ELSE IF FirstNonAscii(value) # 0 THEN InvalidChar(value[FirstNonAscii(value)].e)
    ELSE Ok(value)

\* FromStr for AsciiString (MIN_LEN = 0, MAX_LEN = u16::MAX)
AsciiFromStr(s) ==
    IF FirstNonAscii(s) # 0 THEN InvalidChar(s[FirstNonAscii(s)].e)
    ELSE Ok(s)

(***************************************************************************)
(* Strict encoding of the containers: a 16-bit little-endian count, then   *)
(* the elements. T and K are u16 (two bytes), V is u8 (one byte), a string *)
(* is its bytes.                                                           *)
(***************************************************************************)
IoError == [tag |-> "Io"]
ValueOutOfRange(what, v) == [tag |-> "ValueOutOfRange", what |-> what, val |-> v]
ExceedMaxItems(max) == [tag |-> "ExceedMaxItems", max |-> max]
RepeatedValue(pos) == [tag |-> "RepeatedValue", pos |-> pos]
Utf8Error == [tag |-> "Utf8"]

\* u16::strict_encode
U16Encode(n) == <<n % 256, n \div 256>>

\* u16::from_le_bytes of the two bytes of d that start after `off` bytes
U16At(d, off) == d[off + 1] + 256 * d[off + 2]

RECURSIVE RleSeq(_)
\* the Vec or String as a plain sequence
RleSeq(r) ==
    IF r = <<>> THEN <<>>
    ELSE [i \in 1..r[1].n |-> r[1].e] \o RleSeq(Tail(r))

RECURSIVE RunsSeq(_)
\* BTreeMap::iter: the entries [k, v] in increasing key order
RunsSeq(m) ==
    IF m = {} THEN <<>>
    ELSE LET r == CHOOSE x \in m : \A y \in m : x.lo <= y.lo IN
         [i \in 1..(r.hi - r.lo + 1) |-> [k |-> r.lo + i - 1, v |-> r.val]]
            \o RunsSeq(m \ {r})

RECURSIVE RunsOf(_)
\* the map built by inserting the entries [k, v] of a sequence in order
RunsOf(entries) ==
    IF entries = <<>> THEN {}
    ELSE LET n == Len(entries) IN
         RunsInsert(RunsOf(SubSeq(entries, 1, n - 1)), entries[n].k, entries[n].v)

RECURSIVE Flatten(_)
\* the concatenation of a sequence of byte strings
Flatten(ss) == IF ss = <<>> THEN <<>> ELSE ss[1] \o Flatten(Tail(ss))

\* derived StrictEncode of the newtype: the encoding of field .0
\* (Vec<T>, BTreeSet<T>, BTreeMap<K,V>, String), which refuses more than
\* u16::MAX items
StrictEncode(k, v) ==
    LET len == IF k \in {"Set", "Map"} THEN RunsLen(v) ELSE RleLen(v) IN
    IF len > STRICT_COLLECTION_MAX_LEN THEN ExceedMaxItems(STRICT_COLLECTION_MAX_LEN)
    ELSE Ok(U16Encode(len) \o
            (CASE k = "Vec" ->
                    LET s == RleSeq(v) IN Flatten([i \in 1..len |-> U16Encode(s[i])])
               [] k = "Set" ->
                    LET s == RunsSeq(v) IN Flatten([i \in 1..len |-> U16Encode(s[i].k)])
               [] k = "Map" ->
                    LET s == RunsSeq(v) IN
                    Flatten([i \in 1..len |-> U16Encode(s[i].k) \o <<s[i].v>>])
               [] OTHER -> RleSeq(v)))

\* number of whole items of `width` bytes that `for _ in 0..len` can decode
\* from the bytes of d after the count
ItemsRead(d, len, width) ==
    LET avail == (Len(d) - 2) \div width IN IF avail < len THEN avail ELSE len

\* the position (0-based) of the first item equal to an earlier one, -1 if none
FirstRepeat(keys) ==
    IF \A i, j \in 1..Len(keys) : i < j => keys[i] # keys[j] THEN -1
    ELSE (CHOOSE j \in 1..Len(keys) :
            /\ \E i \in 1..(j - 1) : keys[i] = keys[j]
            /\ \A j2 \in 1..(j - 1) : \A i \in 1..(j2 - 1) : keys[i] # keys[j2]) - 1

\* StrictDecode for StrictVec
VecDecode(d, min) ==
    IF Len(d) < 2 THEN IoError
    ELSE LET len == U16At(d, 0) IN
         IF len < min THEN ValueOutOfRange("array length", len)
         ELSE IF ItemsRead(d, len, 2) < len THEN IoError
         ELSE Ok(RleOf([i \in 1..len |-> U16At(d, 2 + 2 * (i - 1))]))

\* StrictDecode for StrictSet
SetDecode(d, min) ==
    IF Len(d) < 2 THEN IoError
    ELSE LET len == U16At(d, 0) IN
         IF len < min THEN ValueOutOfRange("set length", len)
         ELSE LET n == ItemsRead(d, len, 2)
                  items == [i \in 1..n |-> U16At(d, 2 + 2 * (i - 1))]
              IN  IF FirstRepeat(items) >= 0 THEN RepeatedValue(FirstRepeat(items))
                  ELSE IF n < len THEN IoError
                  ELSE Ok(RunsOf([i \in 1..n |-> [k |-> items[i], v |-> Unit]]))

\* StrictDecode for StrictMap. A key that repeats is reported once its value
\* has been read as well.
MapDecode(d, min) ==
    IF Len(d) < 2 THEN IoError
    ELSE LET len == U16At(d, 0) IN
         IF len < min THEN ValueOutOfRange("map length", len)
         ELSE LET n == ItemsRead(d, len, 3)
                  keys == [i \in 1..n |-> U16At(d, 2 + 3 * (i - 1))]
                  vals == [i \in 1..n |-> d[2 + 3 * (i - 1) + 3]]
              IN  IF FirstRepeat(keys) >= 0 THEN RepeatedValue(FirstRepeat(keys))
                  ELSE IF n < len THEN IoError
                  ELSE Ok(RunsOf([i \in 1..n |-> [k |-> keys[i], v |-> vals[i]]]))

RECURSIVE IsUtf8(_)
\* String::from_utf8 accepts the bytes
IsUtf8(b) ==
    LET Cont(i) == i <= Len(b) /\ b[i] >= 128 /\ b[i] <= 191
        In(i, lo, hi) == i <= Len(b) /\ b[i] >= lo /\ b[i] <= hi
        Rest(n) == IsUtf8(SubSeq(b, n + 1, Len(b)))
    IN  IF b = <<>> THEN TRUE
        ELSE IF b[1] < 128 THEN Rest(1)
        ELSE IF b[1] >= 194 /\ b[1] <= 223 THEN Cont(2) /\ Rest(2)
        ELSE IF b[1] = 224 THEN In(2, 160, 191) /\ Cont(3) /\ Rest(3)
        ELSE IF b[1] = 237 THEN In(2, 128, 159) /\ Cont(3) /\ Rest(3)
        ELSE IF b[1] >= 225 /\ b[1] <= 239 THEN Cont(2) /\ Cont(3) /\ Rest(3)
        ELSE IF b[1] = 240 THEN In(2, 144, 191) /\ Cont(3) /\ Cont(4) /\ Rest(4)
        ELSE IF b[1] >= 241 /\ b[1] <= 243 THEN Cont(2) /\ Cont(3) /\ Cont(4) /\ Rest(4)
        ELSE IF b[1] = 244 THEN In(2, 128, 143) /\ Cont(3) /\ Cont(4) /\ Rest(4)
        ELSE FALSE

\* Vec::<u8>::strict_decode: its own 16-bit count, then that many bytes
VecU8Decode(d) ==
    IF Len(d) < 2 THEN IoError
    ELSE LET n == U16At(d, 0) IN
         IF Len(d) - 2 < n THEN IoError ELSE Ok(SubSeq(d, 3, 2 + n))

\* StrictDecode for StrictStr: the count is read, and then
\* Vec::<u8>::strict_decode reads a count of its own from what follows
StrDecode(d, min) ==
    IF Len(d) < 2 THEN IoError
    ELSE LET len == U16At(d, 0) IN
         IF len < min THEN ValueOutOfRange("string length", len)
         ELSE LET bytes == VecU8Decode(SubSeq(d, 3, Len(d))) IN
              IF bytes.tag # "Ok" THEN bytes
              ELSE IF ~IsUtf8(bytes.val) THEN Utf8Error
              ELSE Ok(RleOf(bytes.val))

\* StrictDecode for AsciiString
AsciiDecode(d, min, max) ==
    IF Len(d) < 2 THEN IoError
    ELSE LET len == U16At(d, 0) IN
         IF len < min THEN ValueOutOfRange("ASCII string length", len)
         ELSE IF len > max THEN ExceedMaxItems(max)
         ELSE IF Len(d) - 2 < len THEN IoError
         ELSE LET bytes == SubSeq(d, 3, 2 + len) IN
              IF \E i \in 1..len : ~IsAscii(bytes[i])
              THEN ValueOutOfRange("ASCII char",
                        bytes[CHOOSE i \in 1..len :
                                /\ ~IsAscii(bytes[i])
                                /\ \A j \in 1..(i - 1) : IsAscii(bytes[j])])
              ELSE Ok(RleOf(bytes))

\* strict_decode of the container type k with the bounds min, max
StrictDecode(k, d, min, max) ==
    CASE k = "Vec" -> VecDecode(d, min)
      [] k = "Set" -> SetDecode(d, min)
      [] k = "Map" -> MapDecode(d, min)
      [] k = "Str" -> StrDecode(d, min)
      [] k = "Ascii" -> AsciiDecode(d, min, max)

(***************************************************************************)
(* The stream: std::io::Read + Seek over the bytes buf. A position is the  *)
(* number of bytes before the cursor. What a seek past the end does is     *)
(* left to the implementation by the Seek trait: std::io::Cursor and File  *)
(* allow it (lenient), and a later read then finds no bytes.               *)
(***************************************************************************)
\* buf.seek(SeekFrom::Current(n)) for n >= 0
SeekForward(pos, n) ==
    IF ~lenient /\ pos + n > Len(buf) THEN [ok |-> FALSE]
    ELSE [ok |-> TRUE, pos |-> pos + n]

\* buf.read_exact(&mut [0u8; n])
ReadExact(pos, n) ==
    IF n > 0 /\ pos + n > Len(buf) THEN [ok |-> FALSE]
    ELSE [ok |-> TRUE, pos |-> pos + n,
          bytes |-> IF n = 0 THEN <<>> ELSE SubSeq(buf, pos + 1, pos + n)]

\* u8::strict_decode(&mut buf)
DecodeU8(pos) ==
    LET r == ReadExact(pos, 1) IN
    IF r.ok THEN [ok |-> TRUE, pos |-> r.pos, val |-> r.bytes[1]] ELSE [ok |-> FALSE]

\* u16::strict_decode(&mut buf): little-endian
DecodeU16(pos) ==
    LET r == ReadExact(pos, 2) IN
    IF r.ok THEN [ok |-> TRUE, pos |-> r.pos, val |-> r.bytes[1] + 256 * r.bytes[2]]
    ELSE [ok |-> FALSE]

(***************************************************************************)
(* The schema types.                                                       *)
(***************************************************************************)
FixedPrimitives ==
    {"U8", "U16", "U32", "U64", "U128", "U256", "U512", "U1024",
     "I8", "I16", "I32", "I64", "I128", "I256", "I512", "I1024",
     "F16b", "F16", "F32", "F64", "F80", "F128", "F256", "F512"}
CharPrimitives == {"AsciiChar", "UnicodeChar"}
PrimitiveType == FixedPrimitives \cup CharPrimitives

\* the inner type T of a TypeConstr<T>: a PrimitiveType or a TypeName
Prim(p) == [t |-> "Primitive", p |-> p]
Named(n) == [t |-> "TypeName", name |-> n]

\* enum TypeConstr<T>
Plain(t) == [c |-> "Plain", ty |-> t]
Array(n, t) == [c |-> "Array", len |-> n, ty |-> t]
List(t) == [c |-> "List", ty |-> t]
Set(t) == [c |-> "Set", ty |-> t]
Map(k, t) == [c |-> "Map", key |-> k, ty |-> t]

\* enum KeyType
KeyPrimitive(p) == [k |-> "Primitive", ty |-> p]
KeyArray(n, p) == [k |-> "Array", len |-> n, ty |-> p]
KeyList(p) == [k |-> "List", ty |-> p]

\* enum TypeRef
InPlace(c) == [r |-> "InPlace", ty |-> c]
NameRef(c) == [r |-> "NameRef", ty |-> c]

\* struct StructField
StructField(t, optional) == [ty |-> t, optional |-> optional]

(***************************************************************************)
(* Verify::verify. A result is true with the position reached, false, or   *)
(* a panic (an .expect() on an Err), which unwinds through every caller.   *)
(***************************************************************************)
VTrue(pos) == [r |-> "true", pos |-> pos]
VFalse == [r |-> "false"]
VPanic == [r |-> "panic"]

\* the width table of PrimitiveType::verify
Width(p) ==
    CASE p \in {"U8", "I8"} -> 1
      [] p \in {"U16", "I16", "F16b", "F16"} -> 2
      [] p \in {"U32", "I32", "F32"} -> 4
      [] p \in {"U64", "I64", "F64"} -> 8
      [] p = "F80" -> 10
      [] p \in {"U128", "I128", "F128"} -> 16
      [] p \in {"U256", "I256", "F256"} -> 32
      [] p \in {"U512", "I512", "F512"} -> 64
      [] p \in {"U1024", "I1024"} -> 128

\* impl Verify for PrimitiveType
VerifyPrimitive(p, pos) ==
    IF p \in CharPrimitives
    THEN LET len == DecodeU16(pos) IN
         IF ~len.ok THEN VFalse
         ELSE LET s == SeekForward(len.pos, len.val) IN
              IF s.ok THEN VTrue(s.pos) ELSE VFalse
    ELSE LET s == SeekForward(pos, Width(p)) IN
         IF s.ok THEN VTrue(s.pos) ELSE VFalse

\* Ord for Vec<u8>: a < b, byte-lexicographic, a proper prefix being less
LexLess(a, b) ==
    \E i \in 1..(Len(b)) :
        /\ \A j \in 1..(i - 1) : j <= Len(a) /\ a[j] = b[j]
        /\ \/ i = Len(a) + 1
           \/ i <= Len(a) /\ a[i] < b[i]

\* a <= b
LexLeq(a, b) == a = b \/ LexLess(a, b)

\* set.iter().last() of a non-empty BTreeSet<Vec<u8>>: its greatest element
SetLast(set) == CHOOSE x \in set : \A y \in set : LexLeq(y, x)

\* the read! macro: seek back to pos_from and read_exact up to pos_to;
\* the .expect() on the read panics when the stream ends before pos_to
ReadSpan(pos_from, pos_to) ==
    LET r == ReadExact(pos_from, pos_to - pos_from) IN
    IF r.ok THEN [ok |-> TRUE, bytes |-> r.bytes, pos |-> r.pos] ELSE [ok |-> FALSE]

RECURSIVE VerifyTypeName(_, _)
RECURSIVE VerifyStructType(_, _)
RECURSIVE VerifyStructField(_, _)
RECURSIVE VerifyTypeRef(_, _)
RECURSIVE VerifyInner(_, _)
RECURSIVE VerifyTimes(_, _, _)
RECURSIVE VerifySetItems(_, _, _, _)
RECURSIVE VerifyMapItems(_, _, _, _, _)
RECURSIVE VerifyTypeConstr(_, _)
RECURSIVE VerifyKeyType(_, _)

\* impl Verify for TypeName
VerifyTypeName(name, pos) ==
    IF name \notin DOMAIN ts THEN VFalse
    ELSE VerifyStructType(ts[name], pos)

\* impl Verify for StructType: the fields in order, the first failure ends it
VerifyStructType(fields, pos) ==
    IF fields = <<>> THEN VTrue(pos)
    ELSE LET r == VerifyStructField(fields[1], pos) IN
         IF r.r # "true" THEN r ELSE VerifyStructType(Tail(fields), r.pos)

\* StructField::verify taking every non-zero presence byte as "present"
VerifyStructFieldNonZero(field, pos) ==
    IF field.optional
    THEN LET b == DecodeU8(pos) IN
         IF ~b.ok THEN VFalse
         ELSE IF b.val = 0 THEN VTrue(b.pos)
         ELSE VerifyTypeRef(field.ty, b.pos)
    ELSE VerifyTypeRef(field.ty, pos)

\* impl Verify for StructField
VerifyStructField(field, pos) ==
    IF field.optional
    THEN LET b == DecodeU8(pos) IN
         IF ~b.ok THEN VFalse
         ELSE IF b.val = 0 THEN VTrue(b.pos)
         ELSE IF b.val = 1 THEN VerifyTypeRef(field.ty, b.pos)
         ELSE VFalse
    ELSE VerifyTypeRef(field.ty, pos)

\* impl Verify for TypeRef
VerifyTypeRef(t, pos) == VerifyTypeConstr(t.ty, pos)

\* T::verify for the inner type of a TypeConstr<T>
VerifyInner(t, pos) ==
    IF t.t = "Primitive" THEN VerifyPrimitive(t.p, pos)
    ELSE VerifyTypeName(t.name, pos)

\* for _ in 0..n { if !ty.verify(ts, buf) { return false } } true
\* The n iterations run in order and the first failure ends the loop; they
\* are evaluated as the first n \div 2 followed by the rest, which keeps
\* the evaluation shallow for a count read from the stream.
VerifyTimes(t, n, pos) ==
    IF n = 0 THEN VTrue(pos)
    ELSE IF n = 1 THEN VerifyInner(t, pos)
    ELSE LET r == VerifyTimes(t, n \div 2, pos) IN
         IF r.r # "true" THEN r ELSE VerifyTimes(t, n - (n \div 2), r.pos)

\* the loop of TypeConstr::Set with n elements left and the spans seen in set
VerifySetItems(t, n, pos, set) ==
    IF n = 0 THEN VTrue(pos)
    ELSE LET r == VerifyInner(t, pos) IN
         IF r.r # "true" THEN r
         ELSE LET val == ReadSpan(pos, r.pos) IN
              IF ~val.ok THEN VPanic
              ELSE IF set # {} /\ LexLeq(val.bytes, SetLast(set)) THEN VFalse
              ELSE IF val.bytes \in set THEN VFalse
              ELSE VerifySetItems(t, n - 1, val.pos, set \cup {val.bytes})

\* the loop of TypeConstr::Map with n entries left and the key spans seen
VerifyMapItems(key, t, n, pos, set) ==
    IF n = 0 THEN VTrue(pos)
    ELSE LET r == VerifyKeyType(key, pos) IN
         IF r.r # "true" THEN r
         ELSE LET k == ReadSpan(pos, r.pos) IN
              IF ~k.ok THEN VPanic
              ELSE IF set # {} /\ LexLeq(k.bytes, SetLast(set)) THEN VFalse
              ELSE IF k.bytes \in set THEN VFalse
              ELSE LET v == VerifyInner(t, k.pos) IN
                   IF v.r # "true" THEN v
                   ELSE VerifyMapItems(key, t, n - 1, v.pos, set \cup {k.bytes})

\* impl Verify for TypeConstr<T>
VerifyTypeConstr(c, pos) ==
    CASE c.c = "Plain" -> VerifyInner(c.ty, pos)
      [] c.c = "Array" -> VerifyTimes(c.ty, c.len, pos)
      [] c.c = "List" ->
            LET len == DecodeU16(pos) IN
            IF ~len.ok THEN VFalse ELSE VerifyTimes(c.ty, len.val, len.pos)
      [] c.c = "Set" ->
            LET len == DecodeU16(pos) IN
            IF ~len.ok THEN VFalse ELSE VerifySetItems(c.ty, len.val, len.pos, {})
      [] c.c = "Map" ->
            LET len == DecodeU16(pos) IN
            IF ~len.ok THEN VFalse
            ELSE VerifyMapItems(c.key, c.ty, len.val, len.pos, {})

\* impl Verify for KeyType
VerifyKeyType(k, pos) ==
    CASE k.k = "Primitive" -> VerifyPrimitive(k.ty, pos)
      [] k.k = "Array" -> VerifyTypeConstr(Array(k.len, Prim(k.ty)), pos)
      [] k.k = "List" -> VerifyTypeConstr(List(Prim(k.ty)), pos)

NoType == [v |-> "none"]
NoOut == [r |-> "none"]

\* the verifier's variables while no verification is modelled
VerifierIdle ==
    /\ ts = <<>> /\ ty = NoType /\ buf = <<>>
    /\ lenient = FALSE /\ start = 0 /\ out = NoOut
    /\ stack = <<>> /\ cursor = 0

(***************************************************************************)
(* Inputs.                                                                 *)
(***************************************************************************)
Kinds == {"Vec", "Set", "Map", "Str", "Ascii"}

\* all sequences over S of length at most n
SeqsUpTo(S, n) == UNION {[1..k -> S] : k \in 0..n}

\* values of MIN_LEN and (AsciiString) MAX_LEN
MinLens == (0..MaxMin) \cup {STRICT_COLLECTION_MAX_LEN}
MaxLens == {0, MaxMin, STRICT_COLLECTION_MAX_LEN}

\* lengths around the 16-bit limit
BigLens == {STRICT_COLLECTION_MAX_LEN - 1, STRICT_COLLECTION_MAX_LEN,
            STRICT_COLLECTION_MAX_LEN + 1}

\* Vec<T> handed to try_from
RawVecs == {RleOf(s) : s \in SeqsUpTo(Elems, MaxLen)}
              \cup {<<[e |-> 0, n |-> k]>> : k \in BigLens}

\* String handed to try_from / from_str: 'A' and U+00E9 (two bytes in UTF-8)
Chars == {<<65>>, <<195, 169>>}
RawStrings == {RleOf(Flatten(s)) : s \in SeqsUpTo(Chars, MaxLen)}
              \cup {<<[e |-> 65, n |-> k]>> : k \in BigLens}

\* byte streams handed to strict_decode
WireBytes == {0, 1}
Wires == SeqsUpTo(WireBytes, 2 + 2 * MaxMin)

\* elements and keys handed to insert / remove
Keys == Elems \cup {STRICT_COLLECTION_MAX_LEN}

\* indexes (u16) handed to StrictVec::remove
Indexes(v) ==
    (0..(MaxLen + 1))
      \cup {i \in {RleLen(v) - 1, RleLen(v), RleLen(v) + 1} :
                0 <= i /\ i <= STRICT_COLLECTION_MAX_LEN}

\* Default::default() of field .0
Empty(k) == IF k \in {"Set", "Map"} THEN {} ELSE <<>>

\* the keys 0 .. n-1, each with the value v
Filled(n, v) == {[lo |-> 0, hi |-> n - 1, val |-> v]}

(***************************************************************************)
(* Spec: the life of one bounded container.                                *)
(***************************************************************************)
NoCall == [op |-> "none"]
NoRet == [tag |-> "None"]

\* the container's variables while no container is modelled
ContainerIdle ==
    /\ kind = "Vec" /\ MIN_LEN = 0 /\ MAX_LEN = STRICT_COLLECTION_MAX_LEN
    /\ live = FALSE /\ inner = <<>> /\ call = NoCall /\ ret = NoRet
    /\ prev = <<>> /\ earlier = [call |-> NoCall, ret |-> NoRet, prev |-> <<>>]
    /\ steps = 0

\* Before construction; and, for the set and the map (which only new() and
\* strict_decode construct), the value strict_decode returns for a stream
\* of n distinct keys 0 .. n-1 with n next to the 16-bit limit.
ContainerInit ==
    /\ kind \in Kinds
    /\ MIN_LEN \in MinLens
    /\ MAX_LEN \in (IF kind = "Ascii" THEN MaxLens ELSE {STRICT_COLLECTION_MAX_LEN})
    /\ steps = 0
    /\ \/ /\ live = FALSE
          /\ inner = Empty(kind)
          /\ call = NoCall
          /\ ret = NoRet
       \/ /\ kind \in {"Set", "Map"}
          /\ live = TRUE
          /\ \E n \in {STRICT_COLLECTION_MAX_LEN - 1, STRICT_COLLECTION_MAX_LEN} :
                /\ n >= MIN_LEN
                /\ inner = Filled(n, IF kind = "Set" THEN Unit ELSE 7)
          /\ call = [op |-> "strict_decode"]
          /\ ret = Ok(inner)
    /\ prev = Empty(kind)
    /\ earlier = [call |-> NoCall, ret |-> NoRet, prev |-> Empty(kind)]

\* a call is made: the thread has not panicked and the model's budget lasts
CanCall == steps < MaxSteps /\ ret.tag # "Panic"

\* a constructor is called: there is no container yet. A constructor that
\* fails leaves none, and the behaviour ends there (another constructor call
\* would start from what Init already describes).
CanConstruct == CanCall /\ ~live /\ call = NoCall

\* what a constructor leaves
Constructed(c, r) ==
    /\ call' = c
    /\ ret' = r
    /\ live' = (r.tag = "Ok")
    /\ inner' = IF r.tag = "Ok" THEN r.val ELSE inner
    /\ prev' = inner
    /\ earlier' = [call |-> call, ret |-> ret, prev |-> prev]
    /\ steps' = steps + 1
    /\ UNCHANGED <<kind, MIN_LEN, MAX_LEN>>
    /\ UNCHANGED vvars

\* what a method of a live container leaves
Called(c, r) ==
    /\ call' = c
    /\ ret' = r.ret
    /\ inner' = r.inner
    /\ prev' = inner
    /\ earlier' = [call |-> call, ret |-> ret, prev |-> prev]
    /\ steps' = steps + 1
    /\ UNCHANGED <<kind, MIN_LEN, MAX_LEN, live>>
    /\ UNCHANGED vvars

\* StrictVec::new, StrictSet::new, StrictMap::new, StrictStr::new,
\* AsciiString::new: defined for MIN_LEN = 0 only
New ==
    /\ CanConstruct
    /\ MIN_LEN = 0
    /\ Constructed([op |-> "new"], Ok(Empty(kind)))

\* StrictVec::try_from, StrictStr::try_from, AsciiString::try_from
TryFrom ==
    /\ CanConstruct
    /\ \/ /\ kind = "Vec"
          /\ \E raw \in RawVecs :
                Constructed([op |-> "try_from", raw |-> raw], TryFromLen(raw, MIN_LEN))
       \/ /\ kind = "Str"
          /\ \E raw \in RawStrings :
                Constructed([op |-> "try_from", raw |-> raw], TryFromLen(raw, MIN_LEN))
       \/ /\ kind = "Ascii"
          /\ \E raw \in RawStrings :
                Constructed([op |-> "try_from", raw |-> raw],
                            AsciiTryFrom(raw, MIN_LEN, MAX_LEN))

\* AsciiString::from_str, implemented for AsciiString<0, { u16::MAX }>
FromStr ==
    /\ CanConstruct
    /\ kind = "Ascii" /\ MIN_LEN = 0 /\ MAX_LEN = STRICT_COLLECTION_MAX_LEN
    /\ \E s \in RawStrings :
          Constructed([op |-> "from_str", raw |-> s], AsciiFromStr(s))

\* strict_decode of a byte stream
Decode ==
    /\ CanConstruct
    /\ \E d \in Wires :
          Constructed([op |-> "strict_decode"], StrictDecode(kind, d, MIN_LEN, MAX_LEN))

\* StrictVec::push
Push ==
    /\ CanCall /\ live /\ kind = "Vec"
    /\ \E item \in Elems :
          Called([op |-> "push", item |-> item], VecPush(inner, item))

\* StrictVec::remove
Remove ==
    /\ CanCall /\ live /\ kind = "Vec"
    /\ \E index \in Indexes(inner) :
          Called([op |-> "remove", index |-> index], VecRemove(inner, index, MIN_LEN))

\* StrictSet::insert, StrictMap::insert
Insert ==
    /\ CanCall /\ live
    /\ \/ /\ kind = "Set"
          /\ \E item \in Keys :
                Called([op |-> "insert", key |-> item, value |-> Unit],
                       SetInsert(inner, item))
       \/ /\ kind = "Map"
          /\ \E key \in Keys, value \in Vals :
                Called([op |-> "insert", key |-> key, value |-> value],
                       MapInsert(inner, key, value))

\* StrictSet::remove, StrictMap::remove
RemoveKey ==
    /\ CanCall /\ live
    /\ \/ /\ kind = "Set"
          /\ \E item \in Keys :
                Called([op |-> "remove", key |-> item], SetRemove(inner, item, MIN_LEN))
       \/ /\ kind = "Map"
          /\ \E key \in Keys :
                Called([op |-> "remove", key |-> key], MapRemove(inner, key, MIN_LEN))

Next == New \/ TryFrom \/ FromStr \/ Decode \/ Push \/ Remove \/ Insert \/ RemoveKey

Init == ContainerInit /\ VerifierIdle

Spec == Init /\ [][Next]_vars

(***************************************************************************)
(* SpecCodec: a valid container is strict-encoded, and the bytes are        *)
(* strict-decoded with the same MIN_LEN and MAX_LEN.                       *)
(***************************************************************************)
\* element and key values of the encoded containers; 256 is <<0, 1>> on the wire
CodecElems == {0, 1, 256}

RECURSIVE SetSeq(_)
\* the elements of a finite set in some order
SetSeq(S) ==
    IF S = {} THEN <<>>
    ELSE LET x == CHOOSE y \in S : TRUE IN <<x>> \o SetSeq(S \ {x})

\* the map holding f[k] at every key k of the function f
RunsOfFunction(f) ==
    LET q == SetSeq(DOMAIN f) IN RunsOf([i \in 1..Len(q) |-> [k |-> q[i], v |-> f[q[i]]]])

\* the values a container of kind k with the bounds min, max can hold, among
\* the small ones: what try_from accepts, and for the set and the map what
\* strict_decode and insert build
ValidValues(k, min, max) ==
    CASE k = "Vec" ->
            {v \in {RleOf(q) : q \in SeqsUpTo(CodecElems, MaxLen)} :
                TryFromLen(v, min).tag = "Ok"}
      [] k = "Str" ->
            {v \in {RleOf(Flatten(q)) : q \in SeqsUpTo(Chars, MaxLen)} :
                TryFromLen(v, min).tag = "Ok"}
      [] k = "Ascii" ->
            {v \in {RleOf(Flatten(q)) : q \in SeqsUpTo(Chars, MaxLen)} :
                AsciiTryFrom(v, min, max).tag = "Ok"}
      [] k = "Set" ->
            {m \in {RunsOfFunction([x \in S |-> Unit]) : S \in SUBSET CodecElems} :
                RunsLen(m) >= min}
      [] k = "Map" ->
            {m \in UNION {{RunsOfFunction(f) : f \in [S -> Vals]} : S \in SUBSET CodecElems} :
                RunsLen(m) >= min}

CodecInit ==
    /\ kind \in Kinds
    /\ MIN_LEN \in 0..MaxMin
    /\ MAX_LEN \in (IF kind = "Ascii" THEN MaxLens ELSE {STRICT_COLLECTION_MAX_LEN})
    /\ live = TRUE
    /\ inner \in ValidValues(kind, MIN_LEN, MAX_LEN)
    /\ call = NoCall
    /\ ret = NoRet
    /\ prev = inner
    /\ earlier = [call |-> NoCall, ret |-> NoRet, prev |-> Empty(kind)]
    /\ steps = 0
    /\ VerifierIdle

\* value.strict_encode(..): ret holds the bytes written
Encode ==
    /\ call.op = "none"
    /\ call' = [op |-> "strict_encode"]
    /\ ret' = StrictEncode(kind, inner)
    /\ earlier' = [call |-> call, ret |-> ret, prev |-> prev]
    /\ steps' = steps + 1
    /\ UNCHANGED <<kind, MIN_LEN, MAX_LEN, live, inner, prev>>
    /\ UNCHANGED vvars

\* Self::strict_decode(..) of the bytes just written: ret holds its result,
\* inner stays the value that was encoded
DecodeBack ==
    /\ call.op = "strict_encode" /\ ret.tag = "Ok"
    /\ call' = [op |-> "strict_decode", wire |-> ret.val]
    /\ ret' = StrictDecode(kind, ret.val, MIN_LEN, MAX_LEN)
    /\ earlier' = [call |-> call, ret |-> ret, prev |-> prev]
    /\ steps' = steps + 1
    /\ UNCHANGED <<kind, MIN_LEN, MAX_LEN, live, inner, prev>>
    /\ UNCHANGED vvars

NextCodec == Encode \/ DecodeBack

SpecCodec == CodecInit /\ [][NextCodec]_vars

(***************************************************************************)
(* SpecVerify: one call of verify on a type and a stream.                  *)
(***************************************************************************)
MaxBuf == 6         \* longest stream

StreamBytes == {0, 1, 2}

\* the TypeSystem of the model
TypeSystem ==
    [n \in {"a", "b", "c", "d"} |->
        CASE n = "a" -> <<StructField(InPlace(Plain(Prim("U32"))), FALSE)>>
          [] n = "b" -> <<StructField(InPlace(Plain(Prim("U16"))), TRUE)>>
          [] n = "c" -> <<StructField(InPlace(Set(Prim("U8"))), FALSE),
                          StructField(NameRef(Plain(Named("b"))), TRUE)>>
          [] n = "d" -> <<StructField(NameRef(Set(Named("b"))), FALSE),
                          StructField(InPlace(Array(2, Prim("U8"))), FALSE)>>]

\* the types verify is called on
RootNames == {[v |-> "TypeName", name |-> n] : n \in {"a", "b", "c", "d", "zz"}}
RootPrimitives ==
    {[v |-> "PrimitiveType", p |-> p] : p \in {"U8", "I16", "U32", "F80", "AsciiChar"}}
RootConstrs ==
    {[v |-> "TypeConstr", c |-> c] :
        c \in {Array(2, Prim("U8")), List(Prim("U16")),
               Set(Prim("U8")), Set(Prim("U16")), Set(Prim("UnicodeChar")), Set(Named("b")),
               Map(KeyPrimitive("U8"), Prim("U8")),
               Map(KeyList("U8"), Prim("U16")),
               Map(KeyArray(2, "U8"), Named("b"))}}

RootFields ==
    {[v |-> "StructField", field |-> f] :
        f \in {StructField(InPlace(Plain(Prim("U16"))), TRUE),
               StructField(InPlace(Plain(Prim("U16"))), FALSE),
               StructField(InPlace(Set(Prim("U8"))), TRUE),
               StructField(NameRef(Plain(Named("b"))), TRUE)}}

VerifyInit ==
    /\ ts = TypeSystem
    /\ ty \in RootNames \cup RootPrimitives \cup RootConstrs \cup RootFields
    /\ buf \in SeqsUpTo(StreamBytes, MaxBuf)
    /\ lenient \in BOOLEAN
    /\ start \in {0, 1}
    /\ start <= Len(buf)
    /\ out = NoOut
    /\ stack = <<>> /\ cursor = start
    /\ ContainerIdle

\* name.verify(&ts, &mut buf)
CallVerifyTypeName ==
    /\ out = NoOut /\ ty.v = "TypeName"
    /\ out' = VerifyTypeName(ty.name, start)
    /\ UNCHANGED <<ts, ty, buf, lenient, start, stack, cursor>>
    /\ UNCHANGED cvars

\* constr.verify(&ts, &mut buf)
CallVerifyTypeConstr ==
    /\ out = NoOut /\ ty.v = "TypeConstr"
    /\ out' = VerifyTypeConstr(ty.c, start)
    /\ UNCHANGED <<ts, ty, buf, lenient, start, stack, cursor>>
    /\ UNCHANGED cvars

\* primitive.verify(&ts, &mut buf)
CallVerifyPrimitive ==
    /\ out = NoOut /\ ty.v = "PrimitiveType"
    /\ out' = VerifyPrimitive(ty.p, start)
    /\ UNCHANGED <<ts, ty, buf, lenient, start, stack, cursor>>
    /\ UNCHANGED cvars

\* field.verify(&ts, &mut buf)
CallVerifyStructField ==
    /\ out = NoOut /\ ty.v = "StructField"
    /\ out' = VerifyStructField(ty.field, start)
    /\ UNCHANGED <<ts, ty, buf, lenient, start, stack, cursor>>
    /\ UNCHANGED cvars

NextVerify ==
    \/ CallVerifyTypeName
    \/ CallVerifyTypeConstr
    \/ CallVerifyPrimitive
    \/ CallVerifyStructField

SpecVerify == VerifyInit /\ [][NextVerify]_vars

(***************************************************************************)
(* SpecRecur: TypeName::verify call by call. The stack holds what the call *)
(* stack of the recursive descent holds: the calls still to be made and    *)
(* the loops and calls in progress. A false or a panic anywhere makes      *)
(* every caller return it at once, so it ends the whole verification.      *)
(***************************************************************************)
MaxStack == 16      \* depth at which the call stack is exhausted

\* the recursion has exhausted the call stack (the process aborts)
VOverflow == [r |-> "overflow"]

\* name.verify(ts, buf) about to be called
FTypeName(name) == [f |-> "TypeName", name |-> name]
\* TypeName::verify(name), entered at position at, waiting for its struct
FReturn(name, at) == [f |-> "Return", name |-> name, at |-> at]
\* StructType::verify: the fields its for loop has still to verify
FStructType(fields) == [f |-> "StructType", fields |-> fields]
FStructField(field) == [f |-> "StructField", field |-> field]
FTypeRef(t) == [f |-> "TypeRef", ty |-> t]
FTypeConstr(c) == [f |-> "TypeConstr", c |-> c]
FPrimitive(p) == [f |-> "PrimitiveType", p |-> p]
\* the loop of Array / List with n iterations left
FLoop(t, n) == [f |-> "Loop", ty |-> t, n |-> n]
\* the loop of Set with n iterations left, and the same after ty.verify
\* of an element that began at pos_from
FSetLoop(t, n, set) == [f |-> "SetLoop", ty |-> t, n |-> n, set |-> set]
FSetCheck(t, n, set, pos_from) ==
    [f |-> "SetCheck", ty |-> t, n |-> n, set |-> set, pos_from |-> pos_from]
\* the loop of Map with n iterations left
FMapLoop(key, t, n, set) == [f |-> "MapLoop", key |-> key, ty |-> t, n |-> n, set |-> set]

\* ty.verify(ts, buf) for the inner type T of a TypeConstr<T>
FInner(t) == IF t.t = "Primitive" THEN FPrimitive(t.p) ELSE FTypeName(t.name)

\* the verification goes on with the frames fs at position pos
Goto(fs, pos) ==
    /\ stack' = fs
    /\ cursor' = pos
    /\ UNCHANGED <<ts, ty, buf, lenient, start, out>>
    /\ UNCHANGED cvars

\* the verification ends with r: every call in progress returns (or unwinds)
Unwind(r) ==
    /\ out' = r
    /\ stack' = <<>>
    /\ UNCHANGED <<ts, ty, buf, lenient, start, cursor>>
    /\ UNCHANGED cvars

\* the innermost frame is of kind f
Running(f) == out = NoOut /\ stack # <<>> /\ Head(stack).f = f

\* impl Verify for TypeName: ts.get(self), then the struct's verify
StepTypeName ==
    /\ Running("TypeName")
    /\ LET name == Head(stack).name IN
       IF name \notin DOMAIN ts THEN Unwind(VFalse)
       ELSE IF Len(stack) >= MaxStack THEN Unwind(VOverflow)
       ELSE Goto(<<FStructType(ts[name]), FReturn(name, cursor)>> \o Tail(stack), cursor)

\* TypeName::verify returns what its struct returned
StepReturn ==
    /\ Running("Return")
    /\ Goto(Tail(stack), cursor)

\* impl Verify for StructType: the next field, or true after the last
StepStructType ==
    /\ Running("StructType")
    /\ LET fields == Head(stack).fields IN
       IF fields = <<>> THEN Goto(Tail(stack), cursor)
       ELSE Goto(<<FStructField(fields[1]), FStructType(Tail(fields))>> \o Tail(stack),
                 cursor)

\* impl Verify for StructField
StepStructField ==
    /\ Running("StructField")
    /\ LET field == Head(stack).field IN
       IF field.optional
       THEN LET b == DecodeU8(cursor) IN
            IF ~b.ok THEN Unwind(VFalse)
            ELSE IF b.val = 0 THEN Goto(Tail(stack), b.pos)
            ELSE IF b.val = 1 THEN Goto(<<FTypeRef(field.ty)>> \o Tail(stack), b.pos)
            ELSE Unwind(VFalse)
       ELSE Goto(<<FTypeRef(field.ty)>> \o Tail(stack), cursor)

\* impl Verify for TypeRef
StepTypeRef ==
    /\ Running("TypeRef")
    /\ Goto(<<FTypeConstr(Head(stack).ty.ty)>> \o Tail(stack), cursor)

\* impl Verify for TypeConstr<T>: up to the first iteration of its loop
StepTypeConstr ==
    /\ Running("TypeConstr")
    /\ LET c == Head(stack).c
           len == DecodeU16(cursor)
       IN  CASE c.c = "Plain" -> Goto(<<FInner(c.ty)>> \o Tail(stack), cursor)
             [] c.c = "Array" -> Goto(<<FLoop(c.ty, c.len)>> \o Tail(stack), cursor)
             [] c.c = "List" ->
                   IF ~len.ok THEN Unwind(VFalse)
                   ELSE Goto(<<FLoop(c.ty, len.val)>> \o Tail(stack), len.pos)
             [] c.c = "Set" ->
                   IF ~len.ok THEN Unwind(VFalse)
                   ELSE Goto(<<FSetLoop(c.ty, len.val, {})>> \o Tail(stack), len.pos)
             [] c.c = "Map" ->
                   IF ~len.ok THEN Unwind(VFalse)
                   ELSE Goto(<<FMapLoop(c.key, c.ty, len.val, {})>> \o Tail(stack), len.pos)

\* impl Verify for PrimitiveType
StepPrimitive ==
    /\ Running("PrimitiveType")
    /\ LET r == VerifyPrimitive(Head(stack).p, cursor) IN
       IF r.r = "true" THEN Goto(Tail(stack), r.pos) ELSE Unwind(r)

\* for _ in 0..len { if !ty.verify(ts, buf) { return false } } true
StepLoop ==
    /\ Running("Loop")
    /\ LET l == Head(stack) IN
       IF l.n = 0 THEN Goto(Tail(stack), cursor)
       ELSE Goto(<<FInner(l.ty), FLoop(l.ty, l.n - 1)>> \o Tail(stack), cursor)

\* the loop of Set: pos_from is taken and ty.verify called
StepSetLoop ==
    /\ Running("SetLoop")
    /\ LET l == Head(stack) IN
       IF l.n = 0 THEN Goto(Tail(stack), cursor)
       ELSE Goto(<<FInner(l.ty), FSetCheck(l.ty, l.n, l.set, cursor)>> \o Tail(stack),
                 cursor)

\* the loop of Set after ty.verify returned true: the span is read again
\* and compared with the greatest one seen
StepSetCheck ==
    /\ Running("SetCheck")
    /\ LET l == Head(stack)
           val == ReadSpan(l.pos_from, cursor)
       IN  IF ~val.ok THEN Unwind(VPanic)
           ELSE IF l.set # {} /\ LexLeq(val.bytes, SetLast(l.set)) THEN Unwind(VFalse)
           ELSE IF val.bytes \in l.set THEN Unwind(VFalse)
           ELSE Goto(<<FSetLoop(l.ty, l.n - 1, l.set \cup {val.bytes})>> \o Tail(stack),
                     val.pos)

\* the loop of Map: the key is verified (a KeyType names no other type),
\* read again and compared; val.verify is called next
StepMapLoop ==
    /\ Running("MapLoop")
    /\ LET l == Head(stack)
           r == VerifyKeyType(l.key, cursor)
           k == ReadSpan(cursor, r.pos)
       IN  IF l.n = 0 THEN Goto(Tail(stack), cursor)
           ELSE IF r.r # "true" THEN Unwind(r)
           ELSE IF ~k.ok THEN Unwind(VPanic)
           ELSE IF l.set # {} /\ LexLeq(k.bytes, SetLast(l.set)) THEN Unwind(VFalse)
           ELSE IF k.bytes \in l.set THEN Unwind(VFalse)
           ELSE Goto(<<FInner(l.ty), FMapLoop(l.key, l.ty, l.n - 1, l.set \cup {k.bytes})>>
                         \o Tail(stack),
                     k.pos)

\* the outermost call returns true
StepFinish ==
    /\ out = NoOut /\ stack = <<>>
    /\ out' = VTrue(cursor)
    /\ UNCHANGED <<ts, ty, buf, lenient, start, stack, cursor>>
    /\ UNCHANGED cvars

\* a TypeSystem in which named types refer to themselves: "loop" directly
\* and "ping" through "pong" before any byte is read, "list" and "chain"
\* after a byte
RecurTypeSystem ==
    [n \in {"loop", "ping", "pong", "list", "chain", "tree", "wood", "leaf"} |->
        CASE n = "loop" -> <<StructField(NameRef(Plain(Named("loop"))), FALSE)>>
          [] n = "ping" -> <<StructField(NameRef(Plain(Named("pong"))), FALSE)>>
          [] n = "pong" -> <<StructField(InPlace(Array(0, Prim("U8"))), FALSE),
                             StructField(NameRef(Array(1, Named("ping"))), FALSE)>>
          [] n = "list" -> <<StructField(InPlace(Plain(Prim("U8"))), FALSE),
                             StructField(NameRef(Plain(Named("list"))), TRUE)>>
          [] n = "chain" -> <<StructField(InPlace(Plain(Prim("U8"))), FALSE),
                              StructField(NameRef(Plain(Named("chain"))), FALSE)>>
          [] n = "tree" -> <<StructField(InPlace(Set(Prim("U8"))), FALSE),
                             StructField(NameRef(Map(KeyPrimitive("U8"), Named("leaf"))), TRUE),
                             StructField(InPlace(List(Prim("U8"))), TRUE)>>
          [] n = "wood" -> <<StructField(NameRef(Set(Named("leaf"))), FALSE),
                             StructField(NameRef(Plain(Named("zz"))), TRUE)>>
          [] n = "leaf" -> <<StructField(InPlace(Plain(Prim("U16"))), TRUE)>>]

\* the root type names
RecurRoots ==
    {[v |-> "TypeName", name |-> n] : n \in DOMAIN RecurTypeSystem \cup {"zz"}}

RecurInit ==
    /\ ts = RecurTypeSystem
    /\ ty \in RecurRoots
    /\ buf \in SeqsUpTo(StreamBytes, MaxBuf)
    /\ lenient \in BOOLEAN
    /\ start \in {0, 1}
    /\ start <= Len(buf)
    /\ out = NoOut
    /\ stack = <<FTypeName(ty.name)>>
    /\ cursor = start
    /\ ContainerIdle

NextRecur ==
    \/ StepTypeName
    \/ StepReturn
    \/ StepStructType
    \/ StepStructField
    \/ StepTypeRef
    \/ StepTypeConstr
    \/ StepPrimitive
    \/ StepLoop
    \/ StepSetLoop
    \/ StepSetCheck
    \/ StepMapLoop
    \/ StepFinish

SpecRecur == RecurInit /\ [][NextRecur]_vars

\* the number of elements or bytes the container holds
Count == IF kind \in {"Set", "Map"} THEN RunsLen(inner) ELSE RleLen(inner)

\* the number it held when the last call was entered
PrevCount == IF kind \in {"Set", "Map"} THEN RunsLen(prev) ELSE RleLen(prev)

(***************************************************************************)
(* Claims about the bounded containers (checked under Spec).               *)
(***************************************************************************)

\* C1: every container reachable through the constructors and any sequence
\* of push / insert / remove calls holds at least MIN_LEN and at most 65535
\* elements or bytes (and an AsciiString at most MAX_LEN).
C1_LenWithinBounds ==
    live =>
        /\ Count >= MIN_LEN
        /\ Count <= STRICT_COLLECTION_MAX_LEN
        /\ (kind = "Ascii" => Count <= MAX_LEN)

\* C2: try_from on a raw input of length L succeeds iff MIN_LEN <= L <= 65535
\* (AsciiString: and L <= MAX_LEN and every byte < 0x80), and then holds the
\* raw input; when L is too large it fails with Oversize carrying L, when L
\* is (only) too small with Undersize carrying L and MIN_LEN, and when the
\* length is legal but a byte is not ASCII with InvalidChar carrying the
\* first such byte.
C2_TryFromChecksBounds ==
    call.op = "try_from" =>
        LET raw == call.raw
            L == RleLen(raw)
            tooLarge == L > STRICT_COLLECTION_MAX_LEN \/ (kind = "Ascii" /\ L > MAX_LEN)
            tooSmall == L < MIN_LEN
            ascii == \A j \in 1..Len(raw) : raw[j].e < 128
        IN  /\ ret.tag = "Ok" <=>
                  /\ MIN_LEN <= L /\ L <= STRICT_COLLECTION_MAX_LEN
                  /\ kind = "Ascii" => (L <= MAX_LEN /\ ascii)
            /\ ret.tag = "Ok" => (live /\ inner = raw)
            /\ ret.tag # "Ok" => (~live /\ inner = prev)
            /\ tooLarge => ret = OversizeError(L)
            /\ (tooSmall /\ ~tooLarge) => ret = UndersizeError(L, MIN_LEN)
            /\ (kind = "Ascii" /\ ~tooLarge /\ ~tooSmall /\ ~ascii) =>
                  \E j \in 1..Len(raw) :
                      /\ raw[j].e >= 128
                      /\ \A i \in 1..(j - 1) : raw[i].e < 128
                      /\ ret = InvalidChar(raw[j].e)

\* C2's case: a string of legal length with a non-ASCII byte after an ASCII one
C2_Witness ==
    /\ call.op = "try_from" /\ kind = "Ascii" /\ ret.tag = "InvalidChar"
    /\ Len(call.raw) >= 2 /\ call.raw[1].e < 128 /\ MIN_LEN > 0

\* C5: StrictVec::remove(index) on a vector longer than MIN_LEN fails with
\* IndexOutOfBounds{index, len}, the vector unchanged, for every index that
\* is not less than the length; otherwise it removes and returns the element.
C5_RemoveChecksIndex ==
    (call.op = "remove" /\ kind = "Vec" /\ PrevCount > MIN_LEN) =>
        IF call.index >= PrevCount
        THEN ret = IndexOutOfBounds(call.index, PrevCount) /\ inner = prev
        ELSE ret = Ok(RleGet(prev, call.index)) /\ inner = RleRemove(prev, call.index)

\* C6: remove on a vector, set or map of exactly MIN_LEN elements fails with
\* Undersize{len, min_len}, whether or not the target exists, and leaves the
\* content unchanged.
C6_RemoveAtMinLen ==
    (call.op = "remove" /\ PrevCount = MIN_LEN) =>
        ret = UndersizeError(MIN_LEN, MIN_LEN) /\ inner = prev

\* C6's case: a vector at its (positive) MIN_LEN asked for an index it lacks
C6_Witness ==
    /\ call.op = "remove" /\ kind = "Vec" /\ MIN_LEN > 0
    /\ PrevCount = MIN_LEN /\ call.index >= PrevCount
    /\ ret.tag = "Undersize"

C9_ReinsertRestores ==
    IF kind = "Vec"
    THEN (/\ call.op = "push" /\ earlier.call.op = "remove"
          /\ RleLen(earlier.prev) > MIN_LEN
          /\ earlier.call.index < RleLen(earlier.prev)
          /\ call.item = RleGet(earlier.prev, earlier.call.index))
            => inner = earlier.prev
    ELSE (/\ call.op = "insert" /\ earlier.call.op = "remove"
          /\ RunsLen(earlier.prev) > MIN_LEN
          /\ RunsHas(earlier.prev, earlier.call.key)
          /\ call.key = earlier.call.key
          /\ call.value = RunsGet(earlier.prev, earlier.call.key))
            => inner = earlier.prev

\* C9 amended: when StrictVec::remove(index) returned the element, pushing
\* it gives a vector of the length before the remove that ends with it, and
\* that equals the vector before the remove when index was the last
\* position; when StrictSet / StrictMap::remove returned that the element /
\* key was present, inserting it (with the value returned) gives the
\* content before the remove.
C9_ReinsertRestoresLast ==
    IF kind = "Vec"
    THEN (/\ call.op = "push" /\ earlier.call.op = "remove"
          /\ earlier.ret.tag = "Ok"
          /\ call.item = earlier.ret.val)
            => /\ RleLen(inner) = RleLen(earlier.prev)
               /\ inner[Len(inner)].e = call.item
               /\ earlier.call.index = RleLen(earlier.prev) - 1 => inner = earlier.prev
    ELSE (/\ call.op = "insert" /\ earlier.call.op = "remove"
          /\ earlier.ret.tag = "Ok"
          /\ call.key = earlier.call.key
          /\ IF kind = "Set" THEN earlier.ret.val = TRUE
                            ELSE earlier.ret.val.some /\ call.value = earlier.ret.val.v)
            => inner = earlier.prev

\* C9's case: the last of at least two different elements removed and pushed
C9_Witness ==
    /\ kind = "Vec" /\ call.op = "push" /\ earlier.call.op = "remove"
    /\ earlier.ret.tag = "Ok" /\ call.item = earlier.ret.val
    /\ earlier.call.index = RleLen(earlier.prev) - 1
    /\ Len(inner) >= 2

(***************************************************************************)
(* Claims about strict encoding (checked under SpecCodec).                 *)
(***************************************************************************)

\* C8: strict-encoding a valid container and strict-decoding the bytes with
\* the same MIN_LEN / MAX_LEN succeeds and yields a value equal to the
\* original.
C8_RoundTrip ==
    call.op = "strict_decode" => ret = Ok(inner)

(***************************************************************************)
(* Claims about the verifier (checked under SpecVerify).                   *)
(***************************************************************************)
\* the bytes of the stream from position a up to position b or its end
Clip(a, b) ==
    LET e == IF b < Len(buf) THEN b ELSE Len(buf) IN
    IF a >= e THEN <<>> ELSE SubSeq(buf, a + 1, e)

RECURSIVE ItemSpans(_, _, _)
\* the n elements of a Set (keys and values of a Map) verified one by one
\* from pos: whether each verifies, the raw span of each element (key), and
\* the position after the last
ItemSpans(c, n, pos) ==
    IF n = 0 THEN [ok |-> TRUE, spans |-> <<>>, pos |-> pos]
    ELSE IF n = 1
    THEN LET k == IF c.c = "Set" THEN VerifyInner(c.ty, pos) ELSE VerifyKeyType(c.key, pos)
         IN  IF k.r # "true" THEN [ok |-> FALSE]
             ELSE LET v == IF c.c = "Map" THEN VerifyInner(c.ty, k.pos) ELSE k IN
                  IF v.r # "true" THEN [ok |-> FALSE]
                  ELSE [ok |-> TRUE, spans |-> <<Clip(pos, k.pos)>>, pos |-> v.pos]
    ELSE LET a == ItemSpans(c, n \div 2, pos) IN
         IF ~a.ok THEN [ok |-> FALSE]
         ELSE LET b == ItemSpans(c, n - (n \div 2), a.pos) IN
              IF ~b.ok THEN [ok |-> FALSE]
              ELSE [ok |-> TRUE, spans |-> a.spans \o b.spans, pos |-> b.pos]

\* each span is strictly greater than the one before it
Increasing(spans) == \A i \in 2..Len(spans) : LexLess(spans[i - 1], spans[i])

\* C3: when the 16-bit count of a Set is readable and every element
\* verifies, verify returns true iff each element's raw span is strictly
\* greater, byte-lexicographically, than the span before it, and false
\* otherwise; for a Map the same holds of the key spans alone.
C3_SetOrderDecides ==
    (out # NoOut /\ ty.v = "TypeConstr" /\ ty.c.c \in {"Set", "Map"}) =>
        LET len == DecodeU16(start) IN
        len.ok =>
            LET items == ItemSpans(ty.c, len.val, len.pos) IN
            items.ok => out.r = IF Increasing(items.spans) THEN "true" ELSE "false"

\* C4: PrimitiveType::verify of a fixed-width primitive of width w returns
\* true iff at least w bytes remain at the cursor and false otherwise; a
\* struct with one non-optional U32 field verifies on 4 bytes and not on 3.
C4_PrimitiveNeedsWidth ==
    /\ (out # NoOut /\ ty.v = "PrimitiveType" /\ ty.p \in FixedPrimitives) =>
            out.r = IF Len(buf) - start >= Width(ty.p) THEN "true" ELSE "false"
    /\ (out # NoOut /\ ty.v = "TypeName" /\ ty.name = "a") =>
            out.r = IF Len(buf) - start >= 4 THEN "true" ELSE "false"

\* C10: for every type and every finite stream verify returns a boolean; a
\* stream that ends early yields false and never a panic.
C10_VerifyReturnsBool ==
    out # NoOut => out.r \in {"true", "false"}

\* C11: StructField::verify of an optional field reads one presence byte:
\* on 0 the result is true with no further byte consumed, on 1 it is the
\* result of verifying the field's type on the bytes that follow, on any
\* other byte, or when no byte can be read, it is false; a non-optional field
\* reads no presence byte and its type is verified at once. An optional U16
\* field verifies on [0] (consuming one byte) and on [1, 0, 1], and fails on
\* a stream that begins with 2.
C11_OptionalPresenceByte ==
    (out # NoOut /\ ty.v = "StructField") =>
        LET f == ty.field IN
        /\ IF ~f.optional THEN out = VerifyTypeConstr(f.ty.ty, start)
           ELSE IF start >= Len(buf) THEN out.r = "false"
           ELSE IF buf[start + 1] = 0 THEN out.r = "true" /\ out.pos = start + 1
           ELSE IF buf[start + 1] = 1 THEN out = VerifyTypeConstr(f.ty.ty, start + 1)
           ELSE out.r = "false"
        /\ (f = StructField(InPlace(Plain(Prim("U16"))), TRUE) /\ start = 0) =>
              /\ buf = <<0>> => (out.r = "true" /\ out.pos = 1)
              /\ buf = <<1, 0, 1>> => (out.r = "true" /\ out.pos = 3)
              /\ (buf # <<>> /\ buf[1] = 2) => out.r = "false"

\* C11's case: an optional field whose presence byte is 1 and whose type
\* verifies on the bytes after it
C11_Witness ==
    /\ out # NoOut /\ ty.v = "StructField" /\ ty.field.optional
    /\ start < Len(buf) /\ buf[start + 1] = 1
    /\ out.r = "true" /\ out.pos > start + 1

RECURSIVE EndOfInner(_, _)
RECURSIVE EndOfTimes(_, _, _)
RECURSIVE EndOfEntries(_, _, _, _)
RECURSIVE EndOfConstr(_, _)
RECURSIVE EndOfFields(_, _)

\* The position at which the encoding of a value of the type that begins at
\* pos ends, every byte of it lying inside the stream, or -1 when the bytes
\* from pos on hold no such encoding.

\* a little-endian 16-bit count at pos
CountAt(pos) == IF pos + 2 > Len(buf) THEN -1 ELSE buf[pos + 1] + 256 * buf[pos + 2]

\* a primitive: its fixed width, or a 16-bit count and that many bytes
EndOfPrimitive(p, pos) ==
    LET e == IF p \in CharPrimitives
             THEN (IF CountAt(pos) < 0 THEN -1 ELSE pos + 2 + CountAt(pos))
             ELSE pos + Width(p)
    IN  IF e > Len(buf) THEN -1 ELSE e

EndOfInner(t, pos) ==
    IF t.t = "Primitive" THEN EndOfPrimitive(t.p, pos)
    ELSE IF t.name \in DOMAIN ts THEN EndOfFields(ts[t.name], pos)
    ELSE -1

\* n values of type t in a row
EndOfTimes(t, n, pos) ==
    IF n = 0 THEN pos
    ELSE IF n = 1 THEN EndOfInner(t, pos)
    ELSE LET e == EndOfTimes(t, n \div 2, pos) IN
         IF e < 0 THEN -1 ELSE EndOfTimes(t, n - (n \div 2), e)

\* a map key
EndOfKey(k, pos) ==
    CASE k.k = "Primitive" -> EndOfPrimitive(k.ty, pos)
      [] k.k = "Array" -> EndOfTimes(Prim(k.ty), k.len, pos)
      [] k.k = "List" ->
            IF CountAt(pos) < 0 THEN -1 ELSE EndOfTimes(Prim(k.ty), CountAt(pos), pos + 2)

\* n map entries in a row, each a key and then a value
EndOfEntries(k, t, n, pos) ==
    IF n = 0 THEN pos
    ELSE IF n = 1
    THEN LET e == EndOfKey(k, pos) IN IF e < 0 THEN -1 ELSE EndOfInner(t, e)
    ELSE LET e == EndOfEntries(k, t, n \div 2, pos) IN
         IF e < 0 THEN -1 ELSE EndOfEntries(k, t, n - (n \div 2), e)

EndOfConstr(c, pos) ==
    CASE c.c = "Plain" -> EndOfInner(c.ty, pos)
      [] c.c = "Array" -> EndOfTimes(c.ty, c.len, pos)
      [] c.c \in {"List", "Set"} ->
            IF CountAt(pos) < 0 THEN -1 ELSE EndOfTimes(c.ty, CountAt(pos), pos + 2)
      [] c.c = "Map" ->
            IF CountAt(pos) < 0 THEN -1
            ELSE EndOfEntries(c.key, c.ty, CountAt(pos), pos + 2)

\* the fields of a struct in schema order, an optional one after its
\* presence byte
EndOfFields(fields, pos) ==
    IF fields = <<>> THEN pos
    ELSE LET f == fields[1]
             e == IF ~f.optional THEN EndOfConstr(f.ty.ty, pos)
                  ELSE IF pos >= Len(buf) THEN -1
                  ELSE IF buf[pos + 1] = 0 THEN pos + 1
                  ELSE IF buf[pos + 1] = 1 THEN EndOfConstr(f.ty.ty, pos + 1)
                  ELSE -1
         IN  IF e < 0 THEN -1 ELSE EndOfFields(Tail(fields), e)

\* the type verify was called on
EndOfValue ==
    CASE ty.v = "PrimitiveType" -> EndOfPrimitive(ty.p, start)
      [] ty.v = "TypeName" -> EndOfInner(Named(ty.name), start)
      [] ty.v = "TypeConstr" -> EndOfConstr(ty.c, start)
      [] ty.v = "StructField" -> EndOfFields(<<ty.field>>, start)

\* C12: whenever verify returns true, the cursor ends at the initial
\* position plus the encoded length of the value (presence bytes, 16-bit
\* counts, fixed widths and char payloads, in schema order), which is never
\* beyond the end of the stream; the re-read of the element and key spans of
\* a Set or Map leaves the cursor where the element or key ended.
C12_CursorAtEndOfValue ==
    (out # NoOut /\ out.r = "true") =>
        /\ out.pos <= Len(buf)
        /\ out.pos = EndOfValue

(***************************************************************************)
(* Further claims about the bounded containers (checked under Spec).       *)
(***************************************************************************)

\* C13: in every state reached through the constructors and push / insert /
\* remove calls, len() of a StrictVec, StrictSet or StrictMap is the number
\* of elements stored (the conversion to u16 does not truncate), and remove
\* reports Undersize only when that number equals MIN_LEN.
C13_LenIsCount ==
    (live /\ kind \in {"Vec", "Set", "Map"}) =>
        /\ (IF kind = "Vec" THEN SeqLen(inner) ELSE MapLen(inner)) = Count
        /\ (call.op = "remove" /\ ret.tag = "Undersize") => PrevCount = MIN_LEN

(***************************************************************************)
(* Claims about the recursion of the verifier (checked under SpecRecur).   *)
(***************************************************************************)

\* a position, those at or beyond the end of the stream taken as one: from
\* there on every read fails and every seek does what it does at the end
AtOrEnd(pos) == IF pos < Len(buf) THEN pos ELSE Len(buf)

\* C14: for every TypeSystem, root type name and finite stream,
\* TypeName::verify returns after finitely many recursive calls. What a call
\* does is fixed by the name, the position and the stream, so this says: no
\* call for a name is entered at a position at which a call for that name is
\* still in progress (such a call would enter itself again without end).
C14_VerifyTerminates ==
    \A i, j \in 1..Len(stack) :
        (/\ i < j
         /\ stack[i].f = "Return" /\ stack[j].f = "Return"
         /\ stack[i].name = stack[j].name)
            => AtOrEnd(stack[i].at) # AtOrEnd(stack[j].at)

====
